---- MODULE Spec2Model ----
(***************************************************************************)
(* Expense Tracker (src/app.py): a Streamlit script that is re-run from    *)
(* top to bottom on every interaction.  One action of this model is one    *)
(* run of the script with one button pressed.  The persistent state is     *)
(* the three kinds of files (users.json, expenses_<u>.csv,                 *)
(* budgets_<u>.json), the session state (user, is_admin), the secrets      *)
(* (ADMIN_USER, ADMIN_PASS) and the wall clock read by datetime.now().     *)
(***************************************************************************)
EXTENDS Integers, Sequences, FiniteSets, TLC

VARIABLES
    users,      \* users.json as load_users() returns it: a set of credentials
    expenses,   \* expenses_<u>.csv for every username: [exists, rows]
    budgets,    \* budgets_<u>.json for every username: [exists, data]
    session,    \* st.session_state: [user, is_admin]
    secrets,    \* st.secrets: [ADMIN_USER, ADMIN_PASS]
    now,        \* datetime.now(), in months since January of year 0 of the model
    ticks,      \* how often the clock has advanced (bounds the model)
    ui,         \* what the last run of the script showed: [op, args, msg, out]
    runs        \* add_expense calls in progress in concurrent script runs

vars == <<users, expenses, budgets, session, secrets, now, ticks, ui, runs>>

-----------------------------------------------------------------------------
(* Bounds of the model *)

MaxRows == 2        \* rows in all ledgers together
MaxTicks == 1       \* advances of the clock

(* Program constants *)

MonthsPerYear == 12

-----------------------------------------------------------------------------
(* Python values *)

None == <<>>
Some(x) == <<x>>

\* Python truthiness of an optional string: None and "" are falsy.
Truthy(o) == o # None /\ o[1] # ""

(* Input domains *)

Usernames == {"alice", "bob"}
Passwords == {"pw1", "pw2"}
categories == {"Food", "Other"}
BudgetCategories == {"Food", "food"}
Descriptions == {"", "NA", "tea"}
Limits == {0, 2}
AdminName == "admin"
AdminPassword == "s3cret"

-----------------------------------------------------------------------------
(* Credentials *)

hash_password(password) == <<"sha256", password>>

UserNames(us) == {c.username : c \in us}

PasswordOf(us, u) == (CHOOSE c \in us : c.username = u).password

\* users[new_user] = {"password": h}
DictPut(us, u, h) ==
    {c \in us : c.username # u} \cup {[username |-> u, password |-> h]}

\* users.pop(username)
DictPop(us, u) == {c \in us : c.username # u}

-----------------------------------------------------------------------------
(* The clock and the DATE_FMT conversion *)

Year(t) == t \div MonthsPerYear
Month(t) == (t % MonthsPerYear) + 1

\* datetime.now().strftime(DATE_FMT): the text written to the Date column
Strftime(t) == <<Year(t), Month(t)>>

\* pd.to_datetime on a Date text
ToDatetime(d) == d[1] * MonthsPerYear + (d[2] - 1)

-----------------------------------------------------------------------------
(* CSV conversion: DataFrame.to_csv and pd.read_csv *)

NaN == <<"nan">>
Str(s) == <<"str", s>>

\* pandas' default na_values (the ones without digits)
NaValues == {"", "NA", "NaN", "nan", "null", "NULL", "N/A", "n/a", "#N/A", "<NA>"}

\* to_csv of an object cell: a missing value is written as the empty field
WriteCell(c) == IF c = NaN THEN "" ELSE c[2]

\* read_csv of a text field
ReadCell(f) == IF f \in NaValues THEN NaN ELSE Str(f)

\* to_csv of a float cell
WriteFloat(a) == <<"num", a>>

\* pd.to_numeric(errors="coerce").fillna(0)
ToNumeric(f) == IF f[1] = "num" THEN f[2] ELSE 0

WriteRow(r) ==
    [Date |-> r.Date, Category |-> WriteCell(r.Category),
     Description |-> WriteCell(r.Description), Amount |-> WriteFloat(r.Amount)]

ReadRow(l) ==
    [Date |-> l.Date, Category |-> ReadCell(l.Category),
     Description |-> ReadCell(l.Description), Amount |-> ToNumeric(l.Amount)]

-----------------------------------------------------------------------------
(* Files *)

NoFile == [exists |-> FALSE, data |-> <<>>]
EmptyCsv == [exists |-> TRUE, data |-> <<>>]
EmptyJson == [exists |-> TRUE, data |-> <<>>]

ensure_expense_file(e, u) ==
    IF e[u].exists THEN e ELSE [e EXCEPT ![u] = EmptyCsv]

ensure_budget_file(b, u) ==
    IF b[u].exists THEN b ELSE [b EXCEPT ![u] = EmptyJson]

load_expenses(e, u) ==
    IF ~e[u].exists THEN <<>>
    ELSE [i \in 1..Len(e[u].data) |-> ReadRow(e[u].data[i])]

\* a write that appends the last row of df to the file as it is now
save_expenses_append(e, u, df) ==
    [e EXCEPT ![u] = [exists |-> TRUE,
                      data |-> Append(e[u].data, WriteRow(df[Len(df)]))]]

save_expenses(e, u, df) ==
    [e EXCEPT ![u] = [exists |-> TRUE,
                      data |-> [i \in 1..Len(df) |-> WriteRow(df[i])]]]

load_budgets(b, u) == IF ~b[u].exists THEN <<>> ELSE b[u].data

save_budgets(b, u, bud) == [b EXCEPT ![u] = [exists |-> TRUE, data |-> bud]]

remove_file_kept(f, u) == f

\* os.remove(path)
remove_file(f, u) == [f EXCEPT ![u] = NoFile]

clear_expenses_all(e, u) == [v \in DOMAIN e |-> EmptyCsv]

\* pd.DataFrame(columns=[...]).to_csv(user_expense_path(u), index=False)
clear_expenses(e, u) == [e EXCEPT ![u] = EmptyCsv]

TotalRows(e) ==
    LET RECURSIVE Sum(_)
        Sum(S) == IF S = {} THEN 0
                  ELSE LET u == CHOOSE x \in S : TRUE
                       IN Len(e[u].data) + Sum(S \ {u})
    IN Sum(DOMAIN e)

-----------------------------------------------------------------------------
(* Budget evaluation *)

\* df[(df["Date_dt"].dt.month == cur_month) & (df["Category"] == c)]["Amount"].sum()
RECURSIVE MonthSum(_, _, _)
MonthSum(df, category, cur_month) ==
    IF df = <<>> THEN 0
    ELSE LET r == Head(df)
             hit == Month(ToDatetime(r.Date)) = cur_month
                    /\ r.Category = Str(category)
         IN (IF hit THEN r.Amount ELSE 0) + MonthSum(Tail(df), category, cur_month)

budget_check_ge(b, e, u, category, t) ==
    LET bud == load_budgets(b, u) IN
    IF bud = <<>> \/ category \notin DOMAIN bud THEN None
    ELSE LET budget_val == bud[category]
             month_sum == MonthSum(load_expenses(e, u), category, Month(t))
         IN Some([exceeded |-> month_sum >= budget_val,
                  month_sum |-> month_sum,
                  budget_val |-> budget_val])

budget_check(b, e, u, category, t) ==
    LET bud == load_budgets(b, u) IN
    IF bud = <<>> \/ category \notin DOMAIN bud THEN None
    ELSE LET budget_val == bud[category]
             month_sum == MonthSum(load_expenses(e, u), category, Month(t))
         IN Some([exceeded |-> month_sum > budget_val,
                  month_sum |-> month_sum,
                  budget_val |-> budget_val])

\* add_expense, lines 83-87: the expense files after the row was appended
append_row(e, u, category, description, amount, t) ==
    LET e1 == ensure_expense_file(e, u)
        df == load_expenses(e1, u)
        row == [Date |-> Strftime(t), Category |-> Str(category),
                Description |-> Str(description), Amount |-> amount]
    IN save_expenses(e1, u, Append(df, row))

add_expense_stale(e, b, u, category, description, amount, t) ==
    [expenses |-> append_row(e, u, category, description, amount, t),
     warn |-> budget_check(b, e, u, category, t)]

\* add_expense: the files it leaves and the warn it returns
add_expense(e, b, u, category, description, amount, t) ==
    LET e2 == append_row(e, u, category, description, amount, t)
    IN [expenses |-> e2, warn |-> budget_check(b, e2, u, category, t)]

-----------------------------------------------------------------------------
(* Session *)

LoggedIn == Truthy(session.user)
RegularArea == LoggedIn /\ ~session.is_admin
AdminArea == LoggedIn /\ session.is_admin
username == session.user[1]

\* The part of the script after the sidebar, reached by a run that ends with
\* session s: line 299 creates the regular user's files when they are missing.
AfterSidebarE(s, e) ==
    IF Truthy(s.user) /\ ~s.is_admin THEN ensure_expense_file(e, s.user[1]) ELSE e
AfterSidebarB(s, b) ==
    IF Truthy(s.user) /\ ~s.is_admin THEN ensure_budget_file(b, s.user[1]) ELSE b

Show(op, args, msg, out) == [op |-> op, args |-> args, msg |-> msg, out |-> out]

\* Script runs that execute add_expense at the same time (Streamlit serves
\* every browser session in its own thread; the files are shared)
Runs == {1, 2}

NoRow == [Date |-> <<0, 1>>, Category |-> Str(""), Description |-> Str(""), Amount |-> 0]

\* pc: where the run is in add_expense; user, df, row: its local variables;
\* seen, after: the runs that had saved when this one loaded and when it saved
IdleRun ==
    [pc |-> "idle", user |-> "", df |-> <<>>, row |-> NoRow, msg |-> "", out |-> None,
     seen |-> {}, after |-> {}]

-----------------------------------------------------------------------------
Init ==
    /\ users = {}
    /\ expenses = [u \in Usernames |-> NoFile]
    /\ budgets = [u \in Usernames |-> NoFile]
    /\ session = [user |-> None, is_admin |-> FALSE]
    /\ secrets \in {[ADMIN_USER |-> None, ADMIN_PASS |-> None],
                    [ADMIN_USER |-> Some(AdminName), ADMIN_PASS |-> None],
                    [ADMIN_USER |-> Some(AdminName), ADMIN_PASS |-> Some(AdminPassword)]}
    /\ now = 10
    /\ ticks = 0
    /\ ui = Show("start", <<>>, "", None)
    /\ runs = [r \in Runs |-> IdleRun]

(* Sidebar *)

SignupRejected_nodup(us, new_user, new_pass) ==
    IF new_user = "" \/ new_pass = "" THEN "Provide username & password" ELSE ""

SignupRejected(us, new_user, new_pass) ==
    IF new_user = "" \/ new_pass = "" THEN "Provide username & password"
    ELSE IF new_user \in UserNames(us) THEN "Username exists"
    ELSE ""

SignUp(new_user, new_pass) ==
    LET err == SignupRejected(users, new_user, new_pass) IN
    /\ IF err # ""
       THEN /\ users' = users
            /\ expenses' = AfterSidebarE(session, expenses)
            /\ budgets' = AfterSidebarB(session, budgets)
            /\ ui' = Show("signup", <<new_user, new_pass>>, err, None)
       ELSE /\ users' = DictPut(users, new_user, hash_password(new_pass))
            /\ expenses' = AfterSidebarE(session, ensure_expense_file(expenses, new_user))
            /\ budgets' = AfterSidebarB(session, ensure_budget_file(budgets, new_user))
            /\ ui' = Show("signup", <<new_user, new_pass>>, "Account created", None)
    /\ UNCHANGED <<session, secrets, now, ticks, runs>>

LoginSession_keepFlag(s, login_user) == [s EXCEPT !.user = Some(login_user)]

\* lines 197-198
LoginSession(s, login_user) == [user |-> Some(login_user), is_admin |-> FALSE]

LoginOk_anyPassword(us, login_user, login_pass) == login_user \in UserNames(us)

LoginOk(us, login_user, login_pass) ==
    /\ login_user \in UserNames(us)
    /\ PasswordOf(us, login_user) = hash_password(login_pass)

Login(login_user, login_pass) ==
    /\ IF LoginOk(users, login_user, login_pass)
       THEN /\ session' = LoginSession(session, login_user)
            /\ ui' = Show("login", <<login_user, login_pass>>, "Signed in", None)
       ELSE /\ session' = session
            /\ ui' = Show("login", <<login_user, login_pass>>, "Invalid credentials", None)
    /\ expenses' = AfterSidebarE(session', expenses)
    /\ budgets' = AfterSidebarB(session', budgets)
    /\ UNCHANGED <<users, secrets, now, ticks, runs>>

AdminLoginResult_userOnly(sec, admin_user_in, admin_pass_in) ==
    IF sec.ADMIN_USER = None THEN "Admin credentials not set"
    ELSE IF Some(admin_user_in) = sec.ADMIN_USER /\ sec.ADMIN_PASS \in {None, Some(admin_pass_in)}
         THEN "Admin logged in"
         ELSE "Invalid admin credentials"

AdminLoginResult(sec, admin_user_in, admin_pass_in) ==
    IF sec.ADMIN_USER = None \/ sec.ADMIN_PASS = None THEN "Admin credentials not set"
    ELSE IF Some(admin_user_in) = sec.ADMIN_USER /\ Some(admin_pass_in) = sec.ADMIN_PASS
         THEN "Admin logged in"
         ELSE "Invalid admin credentials"

AdminLogin(admin_user_in, admin_pass_in) ==
    LET res == AdminLoginResult(secrets, admin_user_in, admin_pass_in) IN
    /\ session' = IF res = "Admin logged in"
                  THEN [user |-> secrets.ADMIN_USER, is_admin |-> TRUE]
                  ELSE session
    /\ ui' = Show("admin_login", <<admin_user_in, admin_pass_in>>, res, None)
    /\ expenses' = AfterSidebarE(session', expenses)
    /\ budgets' = AfterSidebarB(session', budgets)
    /\ UNCHANGED <<users, secrets, now, ticks, runs>>

Logout ==
    /\ LoggedIn
    /\ session' = [user |-> None, is_admin |-> FALSE]
    /\ ui' = Show("logout", <<>>, "", None)
    /\ UNCHANGED <<users, expenses, budgets, secrets, now, ticks, runs>>

(* Regular user area *)

AmountRejected_strict(amt) == amt < 0

\* line 314
AmountRejected(amt) == amt <= 0

AddExpense(cat, desc, amt) ==
    /\ RegularArea
    /\ LET e0 == ensure_expense_file(expenses, username)
           b0 == ensure_budget_file(budgets, username)
       IN IF AmountRejected(amt)
          THEN /\ expenses' = e0
               /\ budgets' = b0
               /\ ui' = Show("add", <<cat, desc, amt>>, "Enter amount > 0", None)
          ELSE LET res == add_expense(e0, b0, username, cat, desc, amt, now)
               IN /\ expenses' = res.expenses
                  /\ budgets' = b0
                  /\ ui' = Show("add", <<cat, desc, amt>>, "Added", res.warn)
    /\ UNCHANGED <<users, session, secrets, now, ticks, runs>>

\* Budgets page, "Budget progress (current month)": category -> cur_sum
BudgetProgress(bud, df, t) ==
    [c \in DOMAIN bud |-> MonthSum(df, c, Month(t))]

SaveBudget(b_cat, b_val) ==
    /\ RegularArea
    /\ LET b0 == ensure_budget_file(budgets, username)
           e0 == ensure_expense_file(expenses, username)
           bud == load_budgets(b0, username)
           new == [c \in DOMAIN bud \cup {b_cat} |-> IF c = b_cat THEN b_val ELSE bud[c]]
           df == load_expenses(e0, username)
       IN /\ expenses' = e0
          /\ IF b_cat = ""
             THEN /\ budgets' = b0
                  /\ ui' = Show("save_budget", <<b_cat, b_val>>, "Enter a category",
                                BudgetProgress(bud, df, now))
             ELSE /\ budgets' = save_budgets(b0, username, new)
                  /\ ui' = Show("save_budget", <<b_cat, b_val>>, "Saved budget",
                                BudgetProgress(new, df, now))
    /\ UNCHANGED <<users, session, secrets, now, ticks, runs>>

(* History & Export *)

\* The characters of the texts the model uses
Chars(s) ==
    CASE s = "" -> <<>>
      [] s = "Food" -> <<"F", "o", "o", "d">>
      [] s = "Other" -> <<"O", "t", "h", "e", "r">>
      [] s = "tea" -> <<"t", "e", "a">>
      [] s = "oo" -> <<"o", "o">>
      [] s = "OT" -> <<"O", "T">>
      [] s = "E" -> <<"E">>
      [] s = "." -> <<".">>
      [] s = "NA" -> <<"N", "A">>

\* str.lower() of one character
Lower(c) ==
    CASE c = "F" -> "f" [] c = "O" -> "o" [] c = "T" -> "t" [] c = "E" -> "e"
      [] c = "N" -> "n" [] c = "A" -> "a" [] OTHER -> c

\* One pattern character against one character, re.IGNORECASE: "." is the
\* regular expression's wildcard, any other character of the model is a literal.
ReCharMatch(pc, c) == pc = "." \/ Lower(pc) = Lower(c)

\* re.search(pat, text, re.IGNORECASE) for a pattern of literals and "."
ReSearch(pat, text) ==
    LET p == Chars(pat)
        t == Chars(text)
    IN \E i \in 0..(Len(t) - Len(p)) :
          \A j \in 1..Len(p) : ReCharMatch(p[j], t[i + j])

\* Series.str.contains(pat, case=False, na=False) on one cell
StrContains(cell, pat) == IF cell = NaN THEN FALSE ELSE ReSearch(pat, cell[2])

RECURSIVE MinDate(_)
MinDate(df) ==
    IF Len(df) = 1 THEN ToDatetime(df[1].Date)
    ELSE LET m == MinDate(Tail(df)) d == ToDatetime(df[1].Date)
         IN IF d < m THEN d ELSE m

RECURSIVE MaxDate(_)
MaxDate(df) ==
    IF Len(df) = 1 THEN ToDatetime(df[1].Date)
    ELSE LET m == MaxDate(Tail(df)) d == ToDatetime(df[1].Date)
         IN IF d > m THEN d ELSE m

\* One row of df_view: the date range, then the two optional filters
InView(df, r, start, end, cat_filter, desc_search) ==
    LET from == IF start = None THEN MinDate(df) ELSE start[1]
        to == IF end = None THEN MaxDate(df) ELSE end[1]
    IN /\ ToDatetime(r.Date) >= from
       /\ ToDatetime(r.Date) <= to
       /\ (cat_filter # "" => StrContains(r.Category, cat_filter))
       /\ (desc_search # "" => StrContains(r.Description, desc_search))

HistoryView(df, start, end, cat_filter, desc_search) ==
    LET Keep(r) == InView(df, r, start, end, cat_filter, desc_search)
    IN SelectSeq(df, Keep)

\* start and end are None when the user leaves the date inputs at their
\* defaults (min_date, max_date).  The run ends in the TypeError of line 363
\* (export_pdf_bytes is called without username) after the view was shown.
History(start, end, cat_filter, desc_search) ==
    /\ RegularArea
    /\ LET e0 == ensure_expense_file(expenses, username)
           df == load_expenses(e0, username)
       IN /\ expenses' = e0
          /\ budgets' = ensure_budget_file(budgets, username)
          /\ ui' = IF df = <<>>
                   THEN Show("history", <<start, end, cat_filter, desc_search>>,
                             "No expenses yet.", <<>>)
                   ELSE Show("history", <<start, end, cat_filter, desc_search>>,
                             "TypeError",
                             HistoryView(df, start, end, cat_filter, desc_search))
    /\ UNCHANGED <<users, session, secrets, now, ticks, runs>>

DeleteMyData ==
    /\ RegularArea
    /\ expenses' = clear_expenses(ensure_expense_file(expenses, username), username)
    /\ budgets' = ensure_budget_file(budgets, username)
    /\ ui' = Show("delete_my_data", <<username>>, "Your expense data cleared.", None)
    /\ UNCHANGED <<users, session, secrets, now, ticks, runs>>

DeleteMyAccount ==
    /\ RegularArea
    /\ users' = DictPop(users, username)
    /\ expenses' = remove_file(expenses, username)
    /\ budgets' = remove_file(budgets, username)
    /\ session' = [session EXCEPT !.user = None]
    /\ ui' = Show("delete_my_account", <<username>>, "Account & data deleted.", None)
    /\ UNCHANGED <<secrets, now, ticks, runs>>

(* Admin area *)

AdminDelete(sel_user) ==
    /\ AdminArea
    /\ sel_user \in UserNames(users)
    /\ expenses' = clear_expenses(expenses, sel_user)
    /\ ui' = Show("admin_delete", <<sel_user>>, "Deleted data", None)
    /\ UNCHANGED <<users, budgets, session, secrets, now, ticks, runs>>

(* add_expense step by step, for runs that overlap: the file is read whole   *)
(* (line 84), the row is appended in memory (85-86), the file is written     *)
(* whole (87), then budget_check reads it again (89).  Nothing locks it.     *)

Saved == {q \in Runs : runs[q].pc \in {"saved", "done"}}

RunLoad(r, cat, desc, amt) ==
    /\ RegularArea
    /\ runs[r].pc = "idle"
    /\ ~AmountRejected(amt)
    /\ LET e1 == ensure_expense_file(expenses, username) IN
       /\ expenses' = e1
       /\ budgets' = ensure_budget_file(budgets, username)
       /\ runs' = [runs EXCEPT ![r] =
                     [pc |-> "loaded", user |-> username,
                      df |-> load_expenses(e1, username),
                      row |-> [Date |-> Strftime(now), Category |-> Str(cat),
                               Description |-> Str(desc), Amount |-> amt],
                      msg |-> "", out |-> None, seen |-> Saved, after |-> {}]]
    /\ UNCHANGED <<users, session, secrets, now, ticks, ui>>

RunSave(r) ==
    /\ runs[r].pc = "loaded"
    /\ expenses' = save_expenses(expenses, runs[r].user, Append(runs[r].df, runs[r].row))
    /\ runs' = [runs EXCEPT ![r].pc = "saved", ![r].after = Saved]
    /\ UNCHANGED <<users, budgets, session, secrets, now, ticks, ui>>

RunCheck(r) ==
    /\ runs[r].pc = "saved"
    /\ runs' = [runs EXCEPT ![r].pc = "done", ![r].msg = "Added",
                            ![r].out = budget_check(budgets, expenses, runs[r].user,
                                                    runs[r].row.Category[2], now)]
    /\ UNCHANGED <<users, expenses, budgets, session, secrets, now, ticks, ui>>

(* Time passes between two runs of the script *)

Tick(d) ==
    /\ now' = now + d
    /\ ticks' = ticks + 1
    /\ UNCHANGED <<users, expenses, budgets, session, secrets, ui, runs>>

-----------------------------------------------------------------------------
(* Accounts, sessions, the admin and the data of two users, within one month *)

RoomForRow == TotalRows(expenses) < MaxRows

Next ==
    \/ \E u \in Usernames \cup {""}, p \in Passwords \cup {""} : SignUp(u, p)
    \/ \E u \in Usernames, p \in Passwords : Login(u, p)
    \/ \E u \in {AdminName, "alice"}, p \in {AdminPassword, "pw1"} : AdminLogin(u, p)
    \/ Logout
    \/ \E a \in {0, 1} : (a > 0 => RoomForRow) /\ AddExpense("Food", "tea", a)
    \/ SaveBudget("Food", 2)
    \/ History(None, None, "", "")
    \/ DeleteMyData
    \/ DeleteMyAccount
    \/ \E u \in Usernames : AdminDelete(u)

Spec == Init /\ [][Next]_vars

(* One user's budgets over the months *)

InitOne == Init /\ secrets.ADMIN_USER = None

NextBudget ==
    \/ SignUp("alice", "pw1")
    \/ Login("alice", "pw1")
    \/ \E c \in categories, a \in {1, 2} : RoomForRow /\ AddExpense(c, "tea", a)
    \/ \E c \in BudgetCategories \cup {""}, v \in Limits : SaveBudget(c, v)
    \/ \E d \in {1, MonthsPerYear} : ticks < MaxTicks /\ Tick(d)

SpecBudget == InitOne /\ [][NextBudget]_vars

(* One user's ledger and its history view *)

CategoryPatterns == {"", "OT", "."}
DescriptionPatterns == {"", "E"}

NextLedger ==
    \/ SignUp("alice", "pw1")
    \/ Login("alice", "pw1")
    \/ \E c \in categories, d \in Descriptions, a \in {-1, 0, 1} :
          (a > 0 => RoomForRow) /\ AddExpense(c, d, a)
    \/ \E s \in {None, Some(now)}, e \in {None, Some(now - 1)},
          cf \in CategoryPatterns, ds \in DescriptionPatterns : History(s, e, cf, ds)
    \/ DeleteMyData
    \/ ticks < MaxTicks /\ Tick(1)

SpecLedger == InitOne /\ [][NextLedger]_vars

(* Two script runs of one user that add an expense at the same time *)

AllIdle == \A r \in Runs : runs[r].pc = "idle"

NextRace ==
    \/ SignUp("alice", "pw1")
    \/ Login("alice", "pw1")
    \/ AllIdle /\ RoomForRow /\ AddExpense("Food", "tea", 1)
    \/ \E r \in Runs, c \in categories, a \in {1, 2} : RunLoad(r, c, "tea", a)
    \/ \E r \in Runs : RunSave(r)
    \/ \E r \in Runs : RunCheck(r)

SpecRace == InitOne /\ [][NextRace]_vars

-----------------------------------------------------------------------------
(* Properties *)

\* The step is a run of the Add Expense handler with the inputs ui' shows
AddStep == ui'.op = "add" /\ AddExpense(ui'.args[1], ui'.args[2], ui'.args[3])
AddedStep == AddStep /\ ui'.msg = "Added"

SameLedgers == \A u \in Usernames : load_expenses(expenses', u) = load_expenses(expenses, u)
SameBudgets == \A u \in Usernames : load_budgets(budgets', u) = load_budgets(budgets, u)

\* C1: an Add Expense with amount <= 0 is rejected with "Enter amount > 0" and
\* every ledger loads after the run exactly as it loaded before it.
C1_NonPositiveRejected ==
    [][(AddStep /\ ui'.args[3] <= 0) =>
          (ui'.msg = "Enter amount > 0" /\ SameLedgers)]_vars

\* C1 witness: a rejected amount <= 0 while the user's ledger holds a row
C1_Witness ==
    /\ ui.op = "add" /\ ui.args[3] <= 0 /\ ui.msg = "Enter amount > 0"
    /\ load_expenses(expenses, "alice") # <<>>

\* C2 (as claimed): after an accepted Add Expense the ledger loads with one
\* row more, the last row carries the category, description and amount that
\* were entered, and the rows before it are the prior ledger in its order.
C2_AppendThenLoad ==
    [][AddedStep =>
          LET L == load_expenses(expenses, username)
              L2 == load_expenses(expenses', username)
          IN /\ Len(L2) = Len(L) + 1
             /\ L2[Len(L2)].Category = Str(ui'.args[1])
             /\ L2[Len(L2)].Description = Str(ui'.args[2])
             /\ L2[Len(L2)].Amount = ui'.args[3]
             /\ SubSeq(L2, 1, Len(L)) = L]_vars

\* Sum of the amounts of the rows of one category in one calendar month
\* (same year and same month) as the instant t
RECURSIVE CalendarMonthSum(_, _, _)
CalendarMonthSum(df, category, t) ==
    IF df = <<>> THEN 0
    ELSE LET r == Head(df)
             hit == r.Date = <<Year(t), Month(t)>> /\ r.Category = Str(category)
         IN (IF hit THEN r.Amount ELSE 0) + CalendarMonthSum(Tail(df), category, t)

\* C3 (as claimed): the current month total that the evaluation after an Add
\* Expense returns is the sum of the rows of that category dated in the same
\* year and month as the evaluation; rows of other calendar months add nothing.
C3_CalendarMonthTotal ==
    [][(AddedStep /\ ui'.out # None) =>
          ui'.out[1].month_sum =
              CalendarMonthSum(load_expenses(expenses', username), ui'.args[1], now)]_vars

\* C4: the evaluation after an Add Expense is absent exactly when the user has
\* no budget entry for the category; otherwise its limit is the stored budget
\* and exceeded is true exactly when the total is strictly above the limit.
C4_EvaluateResult ==
    [][AddedStep =>
          LET bud == load_budgets(budgets', username)
              cat == ui'.args[1]
          IN /\ (ui'.out = None) <=> (cat \notin DOMAIN bud)
             /\ ui'.out # None =>
                   /\ ui'.out[1].budget_val = bud[cat]
                   /\ ui'.out[1].exceeded <=> (ui'.out[1].month_sum > bud[cat])]_vars

\* C4 witness: an evaluation whose total equals the limit and is not exceeded
C4_Witness ==
    /\ ui.op = "add" /\ ui.msg = "Added" /\ ui.out # None
    /\ ui.out[1].month_sum = ui.out[1].budget_val
    /\ ~ui.out[1].exceeded

ClearStep(u) ==
    \/ ui'.op = "delete_my_data" /\ LoggedIn /\ u = username /\ DeleteMyData
    \/ ui'.op = "admin_delete" /\ u = ui'.args[1] /\ AdminDelete(u)

\* C6: a clear of user u's ledger leaves it loading as empty and changes
\* neither the credentials, nor any budget map, nor another user's ledger.
C6_ClearFrame ==
    [][\A u \in Usernames : ClearStep(u) =>
          /\ load_expenses(expenses', u) = <<>>
          /\ users' = users
          /\ SameBudgets
          /\ \A v \in Usernames \ {u} :
                load_expenses(expenses', v) = load_expenses(expenses, v)]_vars

\* C6 witness: the admin has cleared a user who keeps a budget and a
\* credential, while the other user's ledger holds a row
C6_Witness ==
    /\ ui.op = "admin_delete"
    /\ load_budgets(budgets, ui.args[1]) # <<>>
    /\ ui.args[1] \in UserNames(users)
    /\ \E v \in Usernames \ {ui.args[1]} : load_expenses(expenses, v) # <<>>

LoginStep == ui'.op = "login" /\ Login(ui'.args[1], ui'.args[2])
SignUpStep == ui'.op = "signup" /\ SignUp(ui'.args[1], ui'.args[2])

HasCredential(us, u, p) == [username |-> u, password |-> hash_password(p)] \in us

\* C7: an accepted signup stores a credential with which login succeeds; a
\* login with the stored password makes the user the current non-admin user;
\* any other login ends in "Invalid credentials" and leaves the session and
\* the credential store as they were.
C7_Login ==
    [][/\ (SignUpStep /\ ui'.msg = "Account created") =>
             HasCredential(users', ui'.args[1], ui'.args[2])
       /\ LoginStep =>
             IF HasCredential(users, ui'.args[1], ui'.args[2])
             THEN /\ ui'.msg = "Signed in"
                  /\ session' = [user |-> Some(ui'.args[1]), is_admin |-> FALSE]
             ELSE /\ ui'.msg = "Invalid credentials"
                  /\ session' = session
                  /\ users' = users]_vars

\* C7 witness: a registered user's login with another password was refused
\* while somebody is signed in
C7_Witness ==
    /\ ui.op = "login" /\ ui.msg = "Invalid credentials"
    /\ ui.args[1] \in UserNames(users)
    /\ session.user # None

\* C8: the credential store never holds two credentials for one username, and
\* a signup with a taken username, an empty username or an empty password
\* changes neither the credential store nor any ledger or budget file.
C8_UniqueUsernames ==
    /\ [](\A u \in UserNames(users) : Cardinality({c \in users : c.username = u}) = 1)
    /\ [][(SignUpStep /\ (ui'.args[1] \in UserNames(users)
                          \/ ui'.args[1] = "" \/ ui'.args[2] = "")) =>
             /\ ui'.msg # "Account created"
             /\ users' = users
             /\ expenses' = expenses
             /\ budgets' = budgets]_vars

\* C8 witness: a signup with a taken username and another password was
\* refused while that user has a ledger row
C8_Witness ==
    /\ ui.op = "signup" /\ ui.msg = "Username exists"
    /\ ~HasCredential(users, ui.args[1], ui.args[2])
    /\ load_expenses(expenses, ui.args[1]) # <<>>

Configured == secrets.ADMIN_USER # None /\ secrets.ADMIN_PASS # None

\* C9: without both admin secrets no admin login is accepted and the admin
\* flag is never set; with both, the flag is set only by an admin login whose
\* username and password are the configured pair.
C9_AdminFailsClosed ==
    /\ [](~Configured =>
             /\ ~session.is_admin
             /\ ui.op = "admin_login" => ui.msg = "Admin credentials not set")
    /\ [][(session'.is_admin /\ ~session.is_admin) =>
             /\ ui'.op = "admin_login"
             /\ Some(ui'.args[1]) = secrets.ADMIN_USER
             /\ Some(ui'.args[2]) = secrets.ADMIN_PASS]_vars

\* C9 witness: the configured admin username was entered while the admin
\* password is not configured, and was refused
C9_Witness ==
    /\ secrets.ADMIN_USER # None /\ secrets.ADMIN_PASS = None
    /\ ui.op = "admin_login" /\ Some(ui.args[1]) = secrets.ADMIN_USER
    /\ ui.msg = "Admin credentials not set"
    /\ ~session.is_admin

\* Case-insensitive substring: pat occurs in text, every character a literal
Substring(pat, text) ==
    LET p == Chars(pat)
        t == Chars(text)
    IN \E i \in 0..(Len(t) - Len(p)) :
          \A j \in 1..Len(p) : Lower(p[j]) = Lower(t[i + j])

CellHasSubstring(cell, pat) == cell # NaN /\ Substring(pat, cell[2])

\* C10 (as claimed): the history view is the ledger's rows, in order, that lie
\* in the date range and contain the category text and the description text
\* when these are given; with no text and the default range it is the ledger.
C10_FilterIsSubsequence ==
    ui.op = "history" =>
        LET df == load_expenses(expenses, "alice")
            start == ui.args[1]
            end == ui.args[2]
            from == IF start = None THEN MinDate(df) ELSE start[1]
            to == IF end = None THEN MaxDate(df) ELSE end[1]
            Wanted(r) ==
                /\ ToDatetime(r.Date) >= from
                /\ ToDatetime(r.Date) <= to
                /\ (ui.args[3] # "" => CellHasSubstring(r.Category, ui.args[3]))
                /\ (ui.args[4] # "" => CellHasSubstring(r.Description, ui.args[4]))
        IN /\ ui.out = SelectSeq(df, Wanted)
           /\ (start = None /\ end = None /\ ui.args[3] = "" /\ ui.args[4] = "")
                 => ui.out = df

BothDone == \A r \in Runs : runs[r].pc = "done" /\ runs[r].msg = "Added"

\* The row of run r as load_expenses returns it
LoadedRow(r) == ReadRow(WriteRow(runs[r].row))

\* Run p loaded the file after run q had written it: the two did not overlap
RanAfter(p, q) == p # q /\ q \in runs[p].seen

\* C11: when two add_expense runs on one ledger have both reported success,
\* then if one ran after the other the ledger ends with both new rows, and if
\* they overlapped (each read the file before the other wrote it) the ledger
\* is what the last writer read plus the last writer's row only.
C11_LastWriterWins ==
    BothDone =>
        LET L == load_expenses(expenses, "alice") IN
        \A p \in Runs : \A q \in Runs \ {p} :
            /\ RanAfter(p, q) =>
                  L = runs[q].df \o <<LoadedRow(q), LoadedRow(p)>>
            /\ (~RanAfter(p, q) /\ ~RanAfter(q, p) /\ q \in runs[p].after) =>
                  /\ runs[p].df = runs[q].df
                  /\ L = runs[p].df \o <<LoadedRow(p)>>

\* C11 witness: both runs reported success, they overlapped, and the row of
\* one of them is not in the ledger
C11_Witness ==
    /\ BothDone
    /\ \E p \in Runs : \E q \in Runs \ {p} :
          /\ ~RanAfter(p, q) /\ ~RanAfter(q, p)
          /\ LoadedRow(p) # LoadedRow(q)
          /\ LET L == load_expenses(expenses, "alice")
             IN /\ Len(L) = Len(runs[p].df) + 1
                /\ \A i \in 1..Len(L) : L[i] # LoadedRow(q)

DeleteAccountStep == ui'.op = "delete_my_account" /\ LoggedIn /\ DeleteMyAccount

DataChanges == ~SameLedgers \/ ~SameBudgets

\* C13: the admin flag is set only while the current user is the configured
\* admin username; an accepted regular login leaves the flag false; logout
\* leaves no current user and the flag false; and whatever a ledger or budget
\* map loads as changes only in a run of a signed-in non-admin user, for that
\* user, or in the admin's delete.
C13_SessionStates ==
    /\ [](session.is_admin => (Configured /\ session.user = secrets.ADMIN_USER))
    /\ [][/\ (LoginStep /\ ui'.msg = "Signed in") =>
                session' = [user |-> Some(ui'.args[1]), is_admin |-> FALSE]
          /\ (ui'.op = "logout" /\ Logout) =>
                session' = [user |-> None, is_admin |-> FALSE]
          /\ DataChanges =>
                \/ /\ RegularArea
                   /\ ui'.op \in {"add", "save_budget", "delete_my_data",
                                  "delete_my_account"}
                   /\ \A v \in Usernames \ {username} :
                         /\ load_expenses(expenses', v) = load_expenses(expenses, v)
                         /\ load_budgets(budgets', v) = load_budgets(budgets, v)
                \/ AdminArea /\ ui'.op = "admin_delete"]_vars

\* C13 witness: a regular login was refused while the admin is signed in and
\* a user has ledger rows; the admin stays signed in
C13_Witness ==
    /\ session.is_admin /\ session.user = secrets.ADMIN_USER
    /\ ui.op = "login" /\ ui.msg = "Invalid credentials"
    /\ \E v \in UserNames(users) : load_expenses(expenses, v) # <<>>

====
